---- MODULE Spec2Model ----
(***************************************************************************)
(* Model of statement.go of go-pgsql: the named-parameter rewriter         *)
(* (adjustCommand, replaceParameterName, replaceParameterNameInSubstring)  *)
(* and the lifecycle of a prepared Statement (newStatement, Query,         *)
(* Execute, Scan, Close).                                                  *)
(*                                                                         *)
(* Strings are sequences of one-character strings.  Go slice indices are   *)
(* 0-based and half-open; Slice translates them.                           *)
(***************************************************************************)
EXTENDS Integers, Sequences, FiniteSets, TLC

VARIABLES
    conn,        \* the *Conn: nextStatementId, nextPortalId
    paramStmt,   \* Parameter object -> its stmt back-reference (NilRef = nil)
    paramValue,  \* Parameter object -> its value
    slices,      \* the []*Parameter arrays: reference -> contents
    stmts,       \* heap of the Statements that newStatement returned
    nextObj,     \* identity of the next Statement object that is allocated
    lastCall,    \* the last call of the application and what it returned
    rwCommand,   \* rewriter: the command handed to adjustCommand
    rwParams,    \* rewriter: the parameter list handed to adjustCommand
    rwResult,    \* rewriter: what adjustCommand returned
    rwPc         \* rewriter: "start" before the call, "done" after it

vars ==
    <<conn, paramStmt, paramValue, slices, stmts, nextObj, lastCall,
      rwCommand, rwParams, rwResult, rwPc>>

lifecycleVars ==
    <<conn, paramStmt, paramValue, slices, stmts, nextObj, lastCall>>

rewriteVars ==
    <<rwCommand, rwParams, rwResult, rwPc>>

(***************************************************************************)
(* Bounds                                                                  *)
(***************************************************************************)
MaxCmdLen == 4

MaxStmts == 2

MaxRows == 1

(***************************************************************************)
(* Strings                                                                 *)
(***************************************************************************)
Min(S) == CHOOSE x \in S : \A y \in S : x <= y

\* Go's s[lo:hi]
Slice(s, lo, hi) == SubSeq(s, lo + 1, hi)

\* Go's s[lo:]
SliceFrom(s, lo) == SubSeq(s, lo + 1, Len(s))

RECURSIVE Digits(_)
\* the decimal rendering of n >= 0 (%d of Sprintf, an integer operand of Sprint)
Digits(n) ==
    LET d == <<"0", "1", "2", "3", "4", "5", "6", "7", "8", "9">>
    IN  IF n < 10 THEN <<d[n + 1]>> ELSE Digits(n \div 10) \o <<d[(n % 10) + 1]>>

(***************************************************************************)
(* The two regular expressions                                             *)
(***************************************************************************)
\* the class [\- |\n\r\t,)(;=+/<>] of paramRegExp
Delimiters ==
    {"-", " ", "|", "\n", "\r", "\t", ",", ")", "(", ";", "=", "+", "/", "<", ">"}

\* the class [:|@] of paramRegExp
Sigils == {":", "|", "@"}

\* 0-based index of the first single quote of s at or after from, -1 if none
QuoteFrom(s, from) ==
    LET Q == {i \in from .. (Len(s) - 1) : s[i + 1] = "'"}
    IN  IF Q = {} THEN -1 ELSE Min(Q)

RECURSIVE quoteRegExpFrom(_, _)
quoteRegExpFrom(s, from) ==
    LET a == QuoteFrom(s, from)
        b == QuoteFrom(s, a + 1)
    IN  IF a = -1 \/ b = -1
        THEN <<>>
        ELSE <<<<a, b + 1>>>> \o quoteRegExpFrom(s, b + 1)

\* quoteRegExp.FindAllStringIndex(s, -1) for quoteRegExp = ['][^']*[']:
\* the leftmost non-overlapping pairs <<start, end>>
quoteRegExp(s) == quoteRegExpFrom(s, 0)

\* The end of the match of paramRegExp that starts at 0-based index i of s,
\* -1 if there is none: a delimiter, a sigil, old[1:], then a delimiter
\* (which the match includes) or the end of s.  old[1:] holds letters only,
\* so as a regular expression it matches itself.
paramMatchEnd(s, old, i) ==
    LET ident == SliceFrom(old, 1)
        e == i + 2 + Len(ident)
    IN  IF /\ e <= Len(s)
           /\ s[i + 1] \in Delimiters
           /\ s[i + 2] \in Sigils
           /\ Slice(s, i + 2, e) = ident
        THEN IF e = Len(s) THEN e
             ELSE IF s[e + 1] \in Delimiters THEN e + 1 ELSE -1
        ELSE -1

RECURSIVE paramRegExpFrom(_, _, _)
paramRegExpFrom(s, old, from) ==
    LET M == {i \in from .. (Len(s) - 1) : paramMatchEnd(s, old, i) # -1}
    IN  IF M = {}
        THEN <<>>
        ELSE LET i == Min(M)
                 e == paramMatchEnd(s, old, i)
             IN  <<<<i, e>>>> \o paramRegExpFrom(s, old, e)

\* paramRegExp.FindAllStringIndex(s, -1)
paramRegExp(s, old) == paramRegExpFrom(s, old, 0)

(***************************************************************************)
(* The rewriter                                                            *)
(***************************************************************************)
RECURSIVE matchLoop(_, _, _, _, _)
\* the loop over matchIndexPairs and the tail after it; returns what is
\* written to buf
matchLoop(s, new, pairs, k, prevMatchEnd) ==
    IF k > Len(pairs)
    THEN IF prevMatchEnd > 1 THEN SliceFrom(s, prevMatchEnd - 1) ELSE s
    ELSE LET matchStart == pairs[k][1]
             matchEnd == pairs[k][2]
         IN  Slice(s, prevMatchEnd - 1, matchStart + 1) \o new
                 \o matchLoop(s, new, pairs, k + 1, matchEnd)

\* returns what the function appends to buf
replaceParameterNameInSubstring(s, old, new) ==
    matchLoop(s, new, paramRegExp(s, old), 1, 1)

RECURSIVE quoteLoop(_, _, _, _, _, _, _)
\* the loop over quoteIndexPairs; returns <<buf, prevQuoteEnd>>
quoteLoop(command, old, new, pairs, k, prevQuoteEnd, buf) ==
    IF k > Len(pairs)
    THEN <<buf, prevQuoteEnd>>
    ELSE LET quoteStart == pairs[k][1]
             quoteEnd == pairs[k][2]
         IN  quoteLoop(command, old, new, pairs, k + 1, quoteEnd,
                 buf \o replaceParameterNameInSubstring(
                            Slice(command, prevQuoteEnd, quoteStart), old, new)
                     \o Slice(command, quoteStart, quoteEnd))

\* replaceParameterName without the split at the quoted regions
replaceParameterName_IgnoreQuotes(command, old, new) ==
    replaceParameterNameInSubstring(command, old, new)

replaceParameterName(command, old, new) ==
    LET r == quoteLoop(command, old, new, quoteRegExp(command), 1, 0, <<>>)
        buf == r[1]
        prevQuoteEnd == r[2]
    IN  IF Len(buf) > 0
        THEN buf \o replaceParameterNameInSubstring(
                        SliceFrom(command, prevQuoteEnd), old, new)
        ELSE buf \o replaceParameterNameInSubstring(command, old, new)

\* fmt.Sprintf("$%d%s", i+1, cast) for the parameter p at 0-based index i
positionalToken(i, p) ==
    LET cast == IF p.customTypeName # <<>>
                THEN <<":", ":">> \o p.customTypeName
                ELSE <<>>
    IN  <<"$">> \o Digits(i + 1) \o cast

RECURSIVE adjustLoop(_, _, _)
adjustLoop(command, params, i) ==
    IF i >= Len(params)
    THEN command
    ELSE adjustLoop(
             replaceParameterName(command, params[i + 1].name,
                                  positionalToken(i, params[i + 1])),
             params, i + 1)

adjustCommand(command, params) == adjustLoop(command, params, 0)

(***************************************************************************)
(* Inputs of the rewriter                                                  *)
(***************************************************************************)
NameA ==
    <<":", "a">>

NameAB ==
    <<":", "a", "b">>

NameId ==
    <<":", "i", "d">>

NameIdentifier ==
    <<":", "i", "d", "e", "n", "t", "i", "f", "i", "e", "r">>

NameX ==
    <<":", "x">>

TypeInt4 ==
    <<"i", "n", "t", "4">>

\* "where id = :identifier"
CmdWhereIdentifier ==
    <<"w", "h", "e", "r", "e", " ", "i", "d", " ", "=", " ",
      ":", "i", "d", "e", "n", "t", "i", "f", "i", "e", "r">>

\* "select ':id' as x"
CmdSelectQuoted ==
    <<"s", "e", "l", "e", "c", "t", " ", "'", ":", "i", "d", "'", " ",
      "a", "s", " ", "x">>

\* ":x"
CmdOnlyX ==
    <<":", "x">>

\* "a = :id"
CmdEndsWithId ==
    <<"a", " ", "=", " ", ":", "i", "d">>

\* "(:a,:a)"
CmdInList ==
    <<"(", ":", "a", ",", ":", "a", ")">>

\* "x = ' :id ' and y = :id "
CmdQuotedAndBare ==
    <<"x", " ", "=", " ", "'", " ", ":", "i", "d", " ", "'", " ",
      "a", "n", "d", " ", "y", " ", "=", " ", ":", "i", "d", " ">>

\* "a |id b"
CmdPipeId ==
    <<"a", " ", "|", "i", "d", " ", "b">>

\* "select :a , @a"
CmdSelectA ==
    <<"s", "e", "l", "e", "c", "t", " ", ":", "a", " ", ",", " ", "@", "a">>

ExampleCommands ==
    {CmdWhereIdentifier, CmdSelectQuoted, CmdOnlyX, CmdEndsWithId, CmdInList,
     CmdQuotedAndBare, CmdPipeId, CmdSelectA}

\* the characters of the enumerated commands: the sigils, a delimiter,
\* the quote and two letters
Alphabet == {":", "@", "|", ",", "'", "a", "b"}

\* every command of at most MaxCmdLen characters of Alphabet, and the examples
Commands ==
    UNION {[1 .. n -> Alphabet] : n \in 0 .. MaxCmdLen} \cup ExampleCommands

Param(name, customTypeName) ==
    [name |-> name, customTypeName |-> customTypeName]

ParamLists ==
    {<<>>,
     <<Param(NameA, <<>>)>>,
     <<Param(NameA, <<"t">>)>>,
     <<Param(NameA, <<>>), Param(NameAB, <<"t">>)>>,
     <<Param(NameAB, <<>>), Param(NameA, <<>>)>>,
     <<Param(NameId, <<>>)>>,
     <<Param(NameId, <<>>), Param(NameIdentifier, <<>>)>>,
     <<Param(NameX, TypeInt4)>>}

(***************************************************************************)
(* The rewriter as a state machine: one call of adjustCommand              *)
(***************************************************************************)
InitRewrite ==
    /\ rwCommand \in Commands
    /\ rwParams \in ParamLists
    /\ rwResult = <<>>
    /\ rwPc = "start"

Rewrite ==
    /\ rwPc = "start"
    /\ rwResult' = adjustCommand(rwCommand, rwParams)
    /\ rwPc' = "done"
    /\ UNCHANGED <<rwCommand, rwParams>>

(***************************************************************************)
(* Parameters, Statements and the collaborators of a Statement             *)
(***************************************************************************)
\* the Parameter objects the application has created
Parameters == {"p1", "p2", "p3"}

\* name and customTypeName of each Parameter object; p1 and p3 are two
\* objects of one name
parameterOf(p) ==
    CASE p = "p1" -> Param(NameA, <<>>)
      [] p = "p2" -> Param(NameAB, <<"t">>)
      [] p = "p3" -> Param(NameA, <<>>)

\* the Parameter objects the lifecycle uses
LifecycleParameters == {"p1", "p2"}

\* a nil *Parameter in the list handed to newStatement
NilParam == "nil"

\* a nil *Statement
NilRef == 0

\* the parameter lists handed to newStatement: at most two entries
ParamRefLists ==
    UNION {[1 .. n -> LifecycleParameters \cup {NilParam}] : n \in 0 .. 2}

\* the same, of all the Parameter objects
AllParamRefLists ==
    UNION {[1 .. n -> Parameters \cup {NilParam}] : n \in 0 .. 2}

\* the values the application stores in a Parameter
Values == {0, 1}

\* the Parameter objects whose value the application changes
ValuedParameters == {"p1"}

\* the names the application looks up with Parameter(name)
LookupNames == {NameA, NameAB, NameX}

\* the commands handed to newStatement
StmtCommands == {CmdSelectA}

\* a nil os.Error; an error is a tuple that starts with what it reports
NoError == <<>>

\* conn.logAndConvertPanic(x): the error that carries the recovered value x
logAndConvertPanic(x) == <<"converted panic", x>>

\* a ResultSet that was never created (a nil *ResultSet)
NoResultSet == [created |-> FALSE, closeCalls |-> 0, rowsAffected |-> 0]

\* newResultSet(conn)
newResultSet == [created |-> TRUE, closeCalls |-> 0, rowsAffected |-> 0]

\* conn.state.execute(stmt, r) returns or panics
ExecuteOutcomes == {"ok", "panic"}

\* conn.writeClose('S', name) returns or panics
WriteCloseOutcomes == {"ok", "panic"}

\* rs.Close() returns nil, returns an error or panics, and leaves a
\* rows-affected count in the ResultSet
CloseOutcomes == [result : {"ok", "error", "panic"}, rows : 0 .. MaxRows]

\* the outcomes of rs.Close() inside Scan, which does not read the count
ScanCloseOutcomes == {cl \in CloseOutcomes : cl.rows = 0}

\* what is drawn for the calls that follow conn.state.execute: nothing
\* follows an execute that panicked
AfterExecute(ex, outcomes) ==
    IF ex = "panic" THEN {CHOOSE o \in outcomes : TRUE} ELSE outcomes

\* rs.ScanNext(args...) reads a row, finds none, returns an error or panics
ScanNextOutcomes == {"row", "norow", "error", "panic"}

\* the record of a call: what was called, on what, and what came back
NoCall ==
    [op |-> "none", stmt |-> NilRef, params |-> <<>>, panic |-> "none",
     executed |-> 0, exec |-> "none", scanNext |-> "none", close |-> "none",
     writeClose |-> "none",
     rs |-> NoResultSet, rsReturned |-> FALSE,
     err |-> NoError, rowsAffected |-> 0, fetched |-> FALSE,
     flag |-> FALSE, text |-> <<>>, name |-> <<>>, param |-> NilParam,
     ret |-> <<>>, retRef |-> <<"none", 0>>, index |-> 0, value |-> 0]

\* fmt.Sprint(prefix, n)
Sprint(prefix, n) == prefix \o Digits(n)

(***************************************************************************)
(* newStatement                                                            *)
(***************************************************************************)
RECURSIVE bindLoop_NoBoundCheck(_, _, _, _, _)
\* the loop of newStatement without the test of param.stmt
bindLoop_NoBoundCheck(params, i, stmt, pstmt, n2p) ==
    IF i > Len(params)
    THEN [panic |-> "none", paramStmt |-> pstmt, name2param |-> n2p]
    ELSE LET param == params[i]
         IN  IF param = NilParam
             THEN [panic |-> "received a nil parameter",
                   paramStmt |-> pstmt, name2param |-> n2p]
             ELSE bindLoop_NoBoundCheck(params, i + 1, stmt,
                           [pstmt EXCEPT ![param] = stmt],
                           (parameterOf(param).name :> param) @@ n2p)

RECURSIVE bindLoop(_, _, _, _, _)
\* the loop over params of newStatement, from the 1-based index i on:
\* pstmt is the stmt field of every Parameter, n2p is stmt.name2param
bindLoop(params, i, stmt, pstmt, n2p) ==
    IF i > Len(params)
    THEN [panic |-> "none", paramStmt |-> pstmt, name2param |-> n2p]
    ELSE LET param == params[i]
         IN  IF param = NilParam
             THEN [panic |-> "received a nil parameter",
                   paramStmt |-> pstmt, name2param |-> n2p]
             ELSE IF pstmt[param] # NilRef
             THEN [panic |-> "parameter already used in another statement",
                   paramStmt |-> pstmt, name2param |-> n2p]
             ELSE bindLoop(params, i + 1, stmt,
                           [pstmt EXCEPT ![param] = stmt],
                           (parameterOf(param).name :> param) @@ n2p)

\* conn.nextPortalId++ alone
advanceIds_PortalOnly(c) ==
    [nextStatementId |-> c.nextStatementId,
     nextPortalId |-> c.nextPortalId + 1]

\* conn.nextStatementId++ and conn.nextPortalId++
advanceIds(c) ==
    [nextStatementId |-> c.nextStatementId + 1,
     nextPortalId |-> c.nextPortalId + 1]

\* stmt.params = make([]*Parameter, len(params)); copy(stmt.params, params):
\* the caller keeps its array <<"arg", stmt>>, the Statement gets the new
\* array <<"params", stmt>>
storeParams(heap, stmt, params) ==
    [heap |-> heap @@ (<<"arg", stmt>> :> params)
                   @@ (<<"params", stmt>> :> params),
     ref |-> <<"params", stmt>>]

newStatement(command, params) ==
    /\ nextObj <= MaxStmts
    /\ LET stmt == nextObj
           b == bindLoop(params, 1, stmt, paramStmt, <<>>)
       IN  /\ nextObj' = nextObj + 1
           /\ paramStmt' = b.paramStmt
           /\ IF b.panic # "none"
              THEN /\ UNCHANGED <<conn, stmts, slices>>
                   /\ lastCall' = [NoCall EXCEPT !.op = "newStatement",
                                                 !.params = params,
                                                 !.panic = b.panic]
              ELSE /\ conn' = advanceIds(conn)
                   /\ slices' = storeParams(slices, stmt, params).heap
                   /\ stmts' = stmts @@ (stmt :>
                          [conn |-> "conn",
                           name |-> Sprint(<<"s", "t", "m", "t">>,
                                           conn.nextStatementId),
                           portalName |-> Sprint(<<"p", "r", "t", "l">>,
                                                 conn.nextPortalId),
                           command |-> command,
                           actualCommand |->
                               adjustCommand(command,
                                   [i \in 1 .. Len(params) |->
                                       parameterOf(params[i])]),
                           isClosed |-> FALSE,
                           params |-> storeParams(slices, stmt, params).ref,
                           name2param |-> b.name2param])
                   /\ lastCall' = [NoCall EXCEPT !.op = "newStatement",
                                                 !.params = params,
                                                 !.stmt = stmt]
    /\ UNCHANGED paramValue
    /\ UNCHANGED rewriteVars

(***************************************************************************)
(* Query, Execute, Scan, Close                                             *)
(***************************************************************************)
\* rs.Close() with the outcome cl: the ResultSet after it, the error it
\* returned and the value it panicked with
rsClose(rs, cl) ==
    [rs |-> [rs EXCEPT !.closeCalls = @ + 1, !.rowsAffected = cl.rows],
     err |-> IF cl.result = "error" THEN <<"rs.Close error">> ELSE NoError,
     panic |-> IF cl.result = "panic" THEN "rs.Close fault" ELSE "none"]

\* the body of Query on the Statement stmt when conn.state.execute has the
\* outcome ex
queryCall(stmt, ex) ==
    LET r == newResultSet
    IN  IF ex = "panic"
        THEN [rs |-> NoResultSet, err |-> logAndConvertPanic("execute fault"),
              executed |-> 1, exec |-> ex]
        ELSE [rs |-> r, err |-> NoError, executed |-> 1, exec |-> ex]

\* Execute that reads rs.rowsAffected before it closes the ResultSet
executeCall_CountBeforeClose(stmt, ex, cl) ==
    LET q == queryCall(stmt, ex)
        c == rsClose(q.rs, cl)
    IN  IF q.err # NoError
        THEN [rowsAffected |-> 0, err |-> q.err, rs |-> q.rs,
              executed |-> q.executed, exec |-> q.exec, close |-> "none"]
        ELSE IF c.panic # "none"
        THEN [rowsAffected |-> 0, err |-> logAndConvertPanic(c.panic),
              rs |-> c.rs,
              executed |-> q.executed, exec |-> q.exec, close |-> cl.result]
        ELSE [rowsAffected |-> q.rs.rowsAffected, err |-> c.err,
              rs |-> c.rs,
              executed |-> q.executed, exec |-> q.exec, close |-> cl.result]

\* the body of Execute
executeCall(stmt, ex, cl) ==
    LET q == queryCall(stmt, ex)
        c == rsClose(q.rs, cl)
    IN  IF q.err # NoError
        THEN [rowsAffected |-> 0, err |-> q.err, rs |-> q.rs,
              executed |-> q.executed, exec |-> q.exec, close |-> "none"]
        ELSE IF c.panic # "none"
        THEN [rowsAffected |-> 0, err |-> logAndConvertPanic(c.panic),
              rs |-> c.rs,
              executed |-> q.executed, exec |-> q.exec, close |-> cl.result]
        ELSE [rowsAffected |-> c.rs.rowsAffected, err |-> c.err,
              rs |-> c.rs,
              executed |-> q.executed, exec |-> q.exec, close |-> cl.result]

\* Scan that closes the ResultSet after ScanNext returned instead of
\* deferring the close
scanCall_CloseNotDeferred(stmt, ex, sn, cl) ==
    LET q == queryCall(stmt, ex)
        c == IF sn = "panic"
             THEN [rs |-> q.rs, err |-> NoError, panic |-> "none"]
             ELSE rsClose(q.rs, cl)
        fetched == (sn = "row")
        err == IF sn = "error" THEN <<"rs.ScanNext error">> ELSE NoError
        panic == IF c.panic # "none" THEN c.panic
                 ELSE IF sn = "panic" THEN "rs.ScanNext fault" ELSE "none"
    IN  IF q.err # NoError
        THEN [fetched |-> FALSE, err |-> q.err, rs |-> q.rs,
              executed |-> q.executed, exec |-> q.exec,
              scanNext |-> "none", close |-> "none"]
        ELSE [fetched |-> fetched,
              err |-> IF panic # "none" THEN logAndConvertPanic(panic)
                      ELSE err,
              rs |-> c.rs,
              executed |-> q.executed, exec |-> q.exec,
              scanNext |-> sn,
              close |-> IF sn = "panic" THEN "none" ELSE cl.result]

\* the body of Scan: ScanNext has the outcome sn, the deferred rs.Close()
\* the outcome cl; a panic of the deferred call replaces the one of ScanNext
scanCall(stmt, ex, sn, cl) ==
    LET q == queryCall(stmt, ex)
        c == rsClose(q.rs, cl)
        fetched == (sn = "row")
        err == IF sn = "error" THEN <<"rs.ScanNext error">> ELSE NoError
        panic == IF c.panic # "none" THEN c.panic
                 ELSE IF sn = "panic" THEN "rs.ScanNext fault" ELSE "none"
    IN  IF q.err # NoError
        THEN [fetched |-> FALSE, err |-> q.err, rs |-> q.rs,
              executed |-> q.executed, exec |-> q.exec,
              scanNext |-> "none", close |-> "none"]
        ELSE [fetched |-> fetched,
              err |-> IF panic # "none" THEN logAndConvertPanic(panic)
                      ELSE err,
              rs |-> c.rs,
              executed |-> q.executed, exec |-> q.exec,
              scanNext |-> sn, close |-> cl.result]

Query(stmt) ==
    /\ stmt \in DOMAIN stmts
    /\ \E ex \in ExecuteOutcomes :
           LET q == queryCall(stmt, ex)
           IN  lastCall' = [NoCall EXCEPT !.op = "Query", !.stmt = stmt,
                                          !.executed = q.executed,
                                          !.exec = q.exec,
                                          !.rs = q.rs,
                                          !.rsReturned = q.rs.created,
                                          !.err = q.err]
    /\ UNCHANGED <<conn, paramStmt, paramValue, slices, stmts, nextObj>>
    /\ UNCHANGED rewriteVars

Execute(stmt) ==
    /\ stmt \in DOMAIN stmts
    /\ \E ex \in ExecuteOutcomes :
       \E cl \in AfterExecute(ex, CloseOutcomes) :
           LET e == executeCall(stmt, ex, cl)
           IN  lastCall' = [NoCall EXCEPT !.op = "Execute", !.stmt = stmt,
                                          !.executed = e.executed,
                                          !.exec = e.exec,
                                          !.close = e.close,
                                          !.rs = e.rs,
                                          !.rowsAffected = e.rowsAffected,
                                          !.err = e.err]
    /\ UNCHANGED <<conn, paramStmt, paramValue, slices, stmts, nextObj>>
    /\ UNCHANGED rewriteVars

Scan(stmt) ==
    /\ stmt \in DOMAIN stmts
    /\ \E ex \in ExecuteOutcomes :
       \E sn \in AfterExecute(ex, ScanNextOutcomes),
          cl \in AfterExecute(ex, ScanCloseOutcomes) :
           LET e == scanCall(stmt, ex, sn, cl)
           IN  lastCall' = [NoCall EXCEPT !.op = "Scan", !.stmt = stmt,
                                          !.executed = e.executed,
                                          !.exec = e.exec,
                                          !.scanNext = e.scanNext,
                                          !.close = e.close,
                                          !.rs = e.rs,
                                          !.fetched = e.fetched,
                                          !.err = e.err]
    /\ UNCHANGED <<conn, paramStmt, paramValue, slices, stmts, nextObj>>
    /\ UNCHANGED rewriteVars

\* Close that sets the flag before it writes the protocol close
closeCall_FlagFirst(isClosed, w) ==
    IF w = "panic"
    THEN [isClosed |-> TRUE, err |-> logAndConvertPanic("writeClose fault")]
    ELSE [isClosed |-> TRUE, err |-> NoError]

\* Close that sets the flag to whether the protocol close succeeded
closeCall_FlagFollowsOutcome(isClosed, w) ==
    IF w = "panic"
    THEN [isClosed |-> FALSE, err |-> logAndConvertPanic("writeClose fault")]
    ELSE [isClosed |-> TRUE, err |-> NoError]

\* the body of Close on a Statement whose flag is isClosed when
\* conn.writeClose has the outcome w: the flag after it and the error
closeCall(isClosed, w) ==
    IF w = "panic"
    THEN [isClosed |-> isClosed,
          err |-> logAndConvertPanic("writeClose fault")]
    ELSE [isClosed |-> TRUE, err |-> NoError]

Close(stmt) ==
    /\ stmt \in DOMAIN stmts
    /\ \E w \in WriteCloseOutcomes :
           LET c == closeCall(stmts[stmt].isClosed, w)
           IN  /\ stmts' = [stmts EXCEPT ![stmt].isClosed = c.isClosed]
               /\ lastCall' = [NoCall EXCEPT !.op = "Close", !.stmt = stmt,
                                             !.writeClose = w,
                                             !.err = c.err]
    /\ UNCHANGED <<conn, paramStmt, paramValue, slices, nextObj>>
    /\ UNCHANGED rewriteVars

IsClosed(stmt) ==
    /\ stmt \in DOMAIN stmts
    /\ lastCall' = [NoCall EXCEPT !.op = "IsClosed", !.stmt = stmt,
                                  !.flag = stmts[stmt].isClosed]
    /\ UNCHANGED <<conn, paramStmt, paramValue, slices, stmts, nextObj>>
    /\ UNCHANGED rewriteVars


(***************************************************************************)
(* Parameter, Parameters, Command, ActualCommand and what the application  *)
(* does with what it holds                                                 *)
(***************************************************************************)
\* the body of Parameter on the Statement record st
parameterCall(st, name) ==
    IF name \in DOMAIN st.name2param THEN st.name2param[name] ELSE NilParam

\* Parameters that returns stmt.params itself
parametersCall_NoCopy(heap, ref) ==
    [ret |-> heap[ref], retRef |-> ref]

\* the body of Parameters: a new array with the contents of stmt.params,
\* which no one else refers to
parametersCall(heap, ref) ==
    [ret |-> heap[ref], retRef |-> <<"fresh", 0>>]

\* ActualCommand that returns the field command
actualCommandCall_Command(st) == st.command

\* the body of ActualCommand
actualCommandCall(st) == st.actualCommand

\* the body of Command
commandCall(st) == st.command

Parameter(stmt, name) ==
    /\ stmt \in DOMAIN stmts
    /\ lastCall' = [NoCall EXCEPT !.op = "Parameter", !.stmt = stmt,
                                  !.name = name,
                                  !.param = parameterCall(stmts[stmt], name)]
    /\ UNCHANGED <<conn, paramStmt, paramValue, slices, stmts, nextObj>>
    /\ UNCHANGED rewriteVars

ParametersOf(stmt) ==
    /\ stmt \in DOMAIN stmts
    /\ LET r == parametersCall(slices, stmts[stmt].params)
       IN  lastCall' = [NoCall EXCEPT !.op = "Parameters", !.stmt = stmt,
                                      !.ret = r.ret, !.retRef = r.retRef]
    /\ UNCHANGED <<conn, paramStmt, paramValue, slices, stmts, nextObj>>
    /\ UNCHANGED rewriteVars

Command(stmt) ==
    /\ stmt \in DOMAIN stmts
    /\ lastCall' = [NoCall EXCEPT !.op = "Command", !.stmt = stmt,
                                  !.text = commandCall(stmts[stmt])]
    /\ UNCHANGED <<conn, paramStmt, paramValue, slices, stmts, nextObj>>
    /\ UNCHANGED rewriteVars

ActualCommand(stmt) ==
    /\ stmt \in DOMAIN stmts
    /\ lastCall' = [NoCall EXCEPT !.op = "ActualCommand", !.stmt = stmt,
                                  !.text = actualCommandCall(stmts[stmt])]
    /\ UNCHANGED <<conn, paramStmt, paramValue, slices, stmts, nextObj>>
    /\ UNCHANGED rewriteVars

\* the application stores the value v in the Parameter p of a Statement
SetValue(p, v) ==
    /\ paramStmt[p] \in DOMAIN stmts
    /\ paramValue[p] # v
    /\ paramValue' = [paramValue EXCEPT ![p] = v]
    /\ lastCall' = [NoCall EXCEPT !.op = "SetValue", !.param = p, !.value = v]
    /\ UNCHANGED <<conn, paramStmt, slices, stmts, nextObj>>
    /\ UNCHANGED rewriteVars

\* the application overwrites the entry i of the list it handed to
\* newStatement for the Statement stmt
MutateSupplied(stmt, i) ==
    /\ stmt \in DOMAIN stmts
    /\ i \in DOMAIN slices[<<"arg", stmt>>]
    /\ slices[<<"arg", stmt>>][i] # NilParam
    /\ slices' = [slices EXCEPT ![<<"arg", stmt>>][i] = NilParam]
    /\ lastCall' = [NoCall EXCEPT !.op = "MutateSupplied", !.stmt = stmt,
                                  !.index = i]
    /\ UNCHANGED <<conn, paramStmt, paramValue, stmts, nextObj>>
    /\ UNCHANGED rewriteVars

\* the application overwrites the entry i of the sequence that Parameters
\* has just returned: a write to the array the sequence refers to
MutateReturned(i) ==
    /\ lastCall.op = "Parameters"
    /\ i \in DOMAIN lastCall.ret
    /\ lastCall.ret[i] # NilParam
    /\ IF lastCall.retRef = <<"fresh", 0>>
       THEN UNCHANGED slices
       ELSE slices' = [slices EXCEPT ![lastCall.retRef][i] = NilParam]
    /\ lastCall' = [NoCall EXCEPT !.op = "MutateReturned",
                                  !.stmt = lastCall.stmt, !.index = i]
    /\ UNCHANGED <<conn, paramStmt, paramValue, stmts, nextObj>>
    /\ UNCHANGED rewriteVars

(***************************************************************************)
(* Specifications                                                          *)
(***************************************************************************)
\* the connection and the Parameters before any Statement was created
InitLifecycle ==
    /\ conn = [nextStatementId |-> 0, nextPortalId |-> 0]
    /\ paramStmt = [p \in Parameters |-> NilRef]
    /\ paramValue = [p \in Parameters |-> 0]
    /\ slices = <<>>
    /\ stmts = <<>>
    /\ nextObj = 1
    /\ lastCall = NoCall

\* the lifecycle of the Statements of one connection
Init ==
    /\ InitLifecycle
    /\ rwCommand = <<>>
    /\ rwParams = <<>>
    /\ rwResult = <<>>
    /\ rwPc = "idle"

Next ==
    \/ \E command \in StmtCommands, params \in ParamRefLists :
           newStatement(command, params)
    \/ \E stmt \in 1 .. MaxStmts : Query(stmt)
    \/ \E stmt \in 1 .. MaxStmts : Execute(stmt)
    \/ \E stmt \in 1 .. MaxStmts : Scan(stmt)
    \/ \E stmt \in 1 .. MaxStmts : Close(stmt)
    \/ \E stmt \in 1 .. MaxStmts : IsClosed(stmt)
    \/ \E stmt \in 1 .. MaxStmts : Command(stmt)
    \/ \E stmt \in 1 .. MaxStmts : ActualCommand(stmt)
    \/ \E stmt \in 1 .. MaxStmts, name \in LookupNames : Parameter(stmt, name)
    \/ \E stmt \in 1 .. MaxStmts : ParametersOf(stmt)
    \/ \E p \in ValuedParameters, v \in Values : SetValue(p, v)

Spec == Init /\ [][Next]_vars

\* the parameter sequence of the Statements: construction from every list,
\* the accessors, and the application's writes to the lists it holds
NextParams ==
    \/ \E command \in StmtCommands, params \in AllParamRefLists :
           newStatement(command, params)
    \/ \E stmt \in 1 .. MaxStmts, name \in LookupNames : Parameter(stmt, name)
    \/ \E stmt \in 1 .. MaxStmts : ParametersOf(stmt)
    \/ \E stmt \in 1 .. MaxStmts, i \in 1 .. 2 : MutateSupplied(stmt, i)
    \/ \E i \in 1 .. 2 : MutateReturned(i)
    \/ \E stmt \in 1 .. MaxStmts : Close(stmt)

SpecParams == Init /\ [][NextParams]_vars

\* one call of the rewriter on each command and parameter list
InitRw ==
    /\ InitLifecycle
    /\ InitRewrite

NextRw == Rewrite /\ UNCHANGED lifecycleVars

SpecRewrite == InitRw /\ [][NextRw]_vars

(***************************************************************************)
(* Claims about the lifecycle (checked under Spec)                         *)
(***************************************************************************)
ExecutionOps == {"Query", "Execute", "Scan"}

\* C1: after a Close() that succeeded on a Statement, every later Query(),
\* Execute() or Scan() on it fails with a closed-statement fault: it returns
\* a non-nil error, no ResultSet and no row, and the Connection's execute
\* operation is not run for it.
C1_ClosedStatementFaults ==
    (/\ lastCall.op \in ExecutionOps
     /\ stmts[lastCall.stmt].isClosed)
        => /\ lastCall.err # NoError
           /\ ~lastCall.rsReturned
           /\ ~lastCall.rs.created
           /\ ~lastCall.fetched
           /\ lastCall.executed = 0

\* the Parameters of the list params that are not nil
ListedParameters(params) ==
    {params[i] : i \in DOMAIN params} \ {NilParam}

\* C2: a Parameter is bound to at most one Statement for its lifetime: its
\* back-reference is unset or a Statement object that was allocated, a
\* back-reference that is set never changes, and a construction from a list
\* holding a Parameter that is already bound panics and returns no Statement
\* (with the already-used fault when the list holds no nil).
C2_BoundOnce ==
    [][/\ \A p \in Parameters :
              /\ paramStmt[p] \in {NilRef} \cup (1 .. (nextObj - 1))
              /\ paramStmt[p] # NilRef => paramStmt'[p] = paramStmt[p]
       /\ (/\ lastCall'.op = "newStatement"
           /\ nextObj' # nextObj
           /\ \E p \in ListedParameters(lastCall'.params) :
                  paramStmt[p] # NilRef)
              => /\ lastCall'.panic # "none"
                 /\ lastCall'.stmt = NilRef
                 /\ stmts' = stmts
                 /\ (\A i \in DOMAIN lastCall'.params :
                         lastCall'.params[i] # NilParam)
                        => lastCall'.panic =
                               "parameter already used in another statement"
      ]_vars

\* C2 witness: a construction was rejected for a Parameter whose Statement
\* had been closed before.
C2_Witness ==
    /\ lastCall.op = "newStatement"
    /\ lastCall.panic = "parameter already used in another statement"
    /\ \E p \in ListedParameters(lastCall.params) :
           /\ paramStmt[p] \in DOMAIN stmts
           /\ stmts[paramStmt[p]].isClosed

\* C3: the prepared names are stmt<N> and the portal names prtl<N> with N
\* strictly increasing in the order of construction, below the connection's
\* counters, so no two Statements share a prepared name or a portal name.
C3_NamesIncrease ==
    /\ \A s \in DOMAIN stmts :
           \E n \in 0 .. MaxStmts :
               /\ n < conn.nextStatementId
               /\ n < conn.nextPortalId
               /\ stmts[s].name = <<"s", "t", "m", "t">> \o Digits(n)
               /\ stmts[s].portalName = <<"p", "r", "t", "l">> \o Digits(n)
    /\ \A s, t \in DOMAIN stmts :
           s < t =>
               /\ stmts[s].name # stmts[t].name
               /\ stmts[s].portalName # stmts[t].portalName
               /\ \E m, n \in 0 .. MaxStmts :
                      /\ m < n
                      /\ stmts[s].name = <<"s", "t", "m", "t">> \o Digits(m)
                      /\ stmts[t].name = <<"s", "t", "m", "t">> \o Digits(n)
                      /\ stmts[s].portalName =
                             <<"p", "r", "t", "l">> \o Digits(m)
                      /\ stmts[t].portalName =
                             <<"p", "r", "t", "l">> \o Digits(n)

\* C3 witness: a Statement was constructed after an earlier one was closed.
C3_Witness ==
    /\ lastCall.op = "newStatement"
    /\ lastCall.stmt \in DOMAIN stmts
    /\ \E s \in DOMAIN stmts : s < lastCall.stmt /\ stmts[s].isClosed

\* C9: Execute() runs Query() and closes the ResultSet it returned once; when
\* the close returns, the count Execute() returns is the one the ResultSet
\* holds after the close and its error is the one the close returned; when
\* the close panics, the error is the converted panic; when Query() faults,
\* Execute() returns Query()'s error as it is, count 0, and closes nothing.
C9_ExecuteResult ==
    lastCall.op = "Execute" =>
        /\ lastCall.executed = 1
        /\ lastCall.exec = "panic" =>
               /\ lastCall.err = queryCall(lastCall.stmt, "panic").err
               /\ lastCall.err # NoError
               /\ lastCall.rowsAffected = 0
               /\ lastCall.rs = NoResultSet
               /\ lastCall.close = "none"
        /\ lastCall.exec = "ok" =>
               /\ lastCall.rs.created
               /\ lastCall.rs.closeCalls = 1
               /\ lastCall.close \in {"ok", "error"} =>
                      lastCall.rowsAffected = lastCall.rs.rowsAffected
               /\ lastCall.close = "ok" => lastCall.err = NoError
               /\ lastCall.close = "error" =>
                      lastCall.err = <<"rs.Close error">>
               /\ lastCall.close = "panic" =>
                      lastCall.err = logAndConvertPanic("rs.Close fault")

\* C9 witness: an Execute() whose close left a count other than 0 in the
\* ResultSet.
C9_Witness ==
    /\ lastCall.op = "Execute"
    /\ lastCall.close = "ok"
    /\ lastCall.rs.rowsAffected > 0
    /\ lastCall.rowsAffected > 0

\* C10: when the Query() inside Scan() produced a ResultSet, its close has
\* been invoked when Scan() returns, whether a row was read, none existed,
\* ScanNext returned an error or ScanNext panicked; when Query() faults there
\* is no ResultSet and nothing is closed.
C10_ScanClosesResultSet ==
    lastCall.op = "Scan" =>
        /\ lastCall.exec = "ok" =>
               /\ lastCall.rs.created
               /\ lastCall.rs.closeCalls = 1
               /\ lastCall.scanNext \in ScanNextOutcomes
        /\ lastCall.exec = "panic" =>
               /\ lastCall.rs = NoResultSet
               /\ lastCall.err # NoError
               /\ lastCall.scanNext = "none"

\* C10 witness: a Scan() whose ScanNext panicked, with the ResultSet closed.
C10_Witness ==
    /\ lastCall.op = "Scan"
    /\ lastCall.scanNext = "panic"
    /\ lastCall.rs.closeCalls = 1


\* C11: Close() sets the flag only when the protocol close returned; when
\* conn.writeClose panics, Close() returns the converted panic as its error
\* and the Statement, the connection's counters and the Parameters are as
\* before the call.
C11_CloseOnlyOnSuccess ==
    [][lastCall'.op = "Close" =>
           LET s == lastCall'.stmt
           IN  /\ lastCall'.writeClose = "panic" =>
                      /\ lastCall'.err = logAndConvertPanic("writeClose fault")
                      /\ lastCall'.err # NoError
                      /\ stmts' = stmts
                      /\ conn' = conn
                      /\ paramStmt' = paramStmt
               /\ lastCall'.writeClose = "ok" =>
                      /\ lastCall'.err = NoError
                      /\ stmts' = [stmts EXCEPT ![s].isClosed = TRUE]
               /\ stmts'[s].isClosed # stmts[s].isClosed =>
                      lastCall'.writeClose = "ok"
      ]_vars

\* C11 witness: a Close() whose protocol close panicked left the Statement
\* open.
C11_Witness ==
    /\ lastCall.op = "Close"
    /\ lastCall.writeClose = "panic"
    /\ lastCall.err # NoError
    /\ ~stmts[lastCall.stmt].isClosed

\* C12: every fault or error detected while Query(), Execute(), Scan() or
\* Close() runs is returned as a non-nil error of that call, also an error
\* or a panic of the rs.Close() that Scan() runs on exit.
C12_NoFaultSwallowed ==
    (/\ lastCall.op \in {"Query", "Execute", "Scan", "Close"}
     /\ \/ lastCall.exec = "panic"
        \/ lastCall.scanNext \in {"error", "panic"}
        \/ lastCall.close \in {"error", "panic"}
        \/ lastCall.writeClose = "panic")
        => lastCall.err # NoError

\* C13: the flag of a Statement is false after construction, and once it is
\* true it is true after every further call; IsClosed() reports the flag.
C13_ClosedMonotonic ==
    [][/\ \A s \in DOMAIN stmts :
              /\ s \in DOMAIN stmts'
              /\ stmts[s].isClosed => stmts'[s].isClosed
       /\ \A s \in (DOMAIN stmts') \ (DOMAIN stmts) : ~stmts'[s].isClosed
       /\ lastCall'.op = "IsClosed" =>
              /\ lastCall'.flag = stmts'[lastCall'.stmt].isClosed
              /\ stmts[lastCall'.stmt].isClosed => lastCall'.flag
      ]_vars

\* C13 witness: a second Close(), whose protocol close panicked, on a
\* Statement that is closed.
C13_Witness ==
    /\ lastCall.op = "Close"
    /\ lastCall.writeClose = "panic"
    /\ stmts[lastCall.stmt].isClosed

\* C15: a construction that panics has bound no Parameter of its list and
\* has not advanced the connection's counters.
C15_ConstructionAtomic ==
    [][(/\ lastCall'.op = "newStatement"
        /\ nextObj' # nextObj
        /\ lastCall'.panic # "none")
           => /\ paramStmt' = paramStmt
              /\ conn' = conn
      ]_vars

\* C18: Query() returns a ResultSet exactly when its error is nil, and
\* Execute() returns a count other than 0 only with a nil error.
C18_SuccessOrFault ==
    /\ lastCall.op = "Query" =>
           (lastCall.rsReturned <=> lastCall.err = NoError)
    /\ lastCall.op = "Execute" =>
           (lastCall.rowsAffected # 0 => lastCall.err = NoError)

(***************************************************************************)
(* Claims about the rewriter (checked under SpecRewrite)                   *)
(***************************************************************************)
\* the sigils a named placeholder is written with
NamedSigils == {":", "@"}

\* the 0-based index i of command lies in a quoted region
InQuotedRegion(command, i) ==
    LET pairs == quoteRegExp(command)
    IN  \E k \in DOMAIN pairs : pairs[k][1] <= i /\ i < pairs[k][2]

\* the 0-based indices where a placeholder of the name occurs in command
\* outside the quoted regions, with a delimiter or the start of the command
\* before it and a delimiter or the end of the command after it
BoundedOccurrences(command, name) ==
    LET n == Len(name)
    IN  {i \in 0 .. (Len(command) - n) :
            /\ command[i + 1] \in NamedSigils
            /\ Slice(command, i + 1, i + n) = SliceFrom(name, 1)
            /\ (i = 0 \/ command[i] \in Delimiters)
            /\ (i + n = Len(command) \/ command[i + n + 1] \in Delimiters)
            /\ ~InQuotedRegion(command, i)}

\* the 0-based indices where the text t occurs in s
Occurrences(s, t) ==
    {i \in 0 .. (Len(s) - Len(t)) : Slice(s, i, i + Len(t)) = t}

\* C4: each parameter at the 1-based position k that occurs outside the
\* quoted regions, bounded by delimiters or the ends of the command, has all
\* of these occurrences replaced by $k: the rewritten command holds at least
\* as many $k as the command holds such occurrences.
C4_AllOccurrencesReplaced ==
    rwPc = "done" =>
        \A k \in DOMAIN rwParams :
            Cardinality(Occurrences(rwResult, <<"$">> \o Digits(k)))
                >= Cardinality(BoundedOccurrences(rwCommand, rwParams[k].name))

\* "where id = $2"
CmdWhereDollar2 ==
    <<"w", "h", "e", "r", "e", " ", "i", "d", " ", "=", " ", "$", "2">>

\* C5: with the parameters [:id, :identifier] the command
\* "where id = :identifier" is rewritten to exactly "where id = $2".
C5_PrefixNotMatched ==
    (/\ rwPc = "done"
     /\ rwCommand = CmdWhereIdentifier
     /\ rwParams = <<Param(NameId, <<>>), Param(NameIdentifier, <<>>)>>)
        => rwResult = CmdWhereDollar2

\* the single quotes of s are balanced
BalancedQuotes(s) ==
    Cardinality({i \in DOMAIN s : s[i] = "'"}) % 2 = 0

\* the texts of the quoted regions of s, in order
QuotedTexts(s) ==
    LET pairs == quoteRegExp(s)
    IN  [k \in DOMAIN pairs |-> Slice(s, pairs[k][1], pairs[k][2])]

\* C6: for a command with balanced quotes, the quoted regions of the
\* rewritten command are those of the command, character for character and
\* in the same order.
C6_QuotedVerbatim ==
    (rwPc = "done" /\ BalancedQuotes(rwCommand))
        => QuotedTexts(rwResult) = QuotedTexts(rwCommand)

\* C6 witness: a rewritten command with balanced quotes, in which a quoted
\* region holds a placeholder that would be replaced outside of it, and in
\* which a placeholder outside was replaced.
C6_Witness ==
    /\ rwPc = "done"
    /\ BalancedQuotes(rwCommand)
    /\ rwResult # rwCommand
    /\ \E k \in DOMAIN rwParams, j \in DOMAIN QuotedTexts(rwCommand) :
           paramRegExp(QuotedTexts(rwCommand)[j], rwParams[k].name) # <<>>

\* "$1::int4"
CmdDollar1Int4 ==
    <<"$", "1", ":", ":", "i", "n", "t", "4">>

\* C7: the parameter :x with the custom type int4 at position 1 rewrites the
\* command ":x" to "$1::int4".
C7_CastExample ==
    (/\ rwPc = "done"
     /\ rwCommand = CmdOnlyX
     /\ rwParams = <<Param(NameX, TypeInt4)>>)
        => rwResult = CmdDollar1Int4

\* no identifier of a parameter of params occurs in command behind a colon
\* or an at-sign
NoNamedPlaceholder(command, params) ==
    \A k \in DOMAIN params :
        \A i \in 0 .. (Len(command) - Len(params[k].name)) :
            ~(/\ command[i + 1] \in NamedSigils
              /\ Slice(command, i + 1, i + Len(params[k].name))
                     = SliceFrom(params[k].name, 1))

\* C8: a command that holds no named placeholder of a supplied parameter is
\* returned unchanged.
C8_NoPlaceholderUnchanged ==
    (rwPc = "done" /\ NoNamedPlaceholder(rwCommand, rwParams))
        => rwResult = rwCommand

RECURSIVE substituteMatches(_, _, _, _, _, _)
\* s with the sigil and identifier of every match of pairs, from the k-th
\* on, substituted by new and every other character kept: prev is the
\* 0-based index of the first character not yet copied, n the length of
\* sigil plus identifier
substituteMatches(s, n, new, pairs, k, prev) ==
    IF k > Len(pairs)
    THEN SliceFrom(s, prev)
    ELSE Slice(s, prev, pairs[k][1] + 1) \o new
             \o substituteMatches(s, n, new, pairs, k + 1, pairs[k][1] + 1 + n)

RECURSIVE substituteOutsideQuotes(_, _, _, _, _, _)
\* the command with the matched occurrences of old in the text between the
\* quoted regions substituted by new, the quoted regions kept
substituteOutsideQuotes(command, old, new, quotes, k, prev) ==
    LET sub(t) == substituteMatches(t, Len(old), new, paramRegExp(t, old), 1, 0)
    IN  IF k > Len(quotes)
        THEN sub(SliceFrom(command, prev))
        ELSE sub(Slice(command, prev, quotes[k][1]))
                 \o Slice(command, quotes[k][1], quotes[k][2])
                 \o substituteOutsideQuotes(command, old, new, quotes, k + 1,
                                            quotes[k][2])

RECURSIVE substituteAll(_, _, _)
\* the substitution for each parameter of params in turn, from the 0-based
\* index i on
substituteAll(command, params, i) ==
    IF i >= Len(params)
    THEN command
    ELSE substituteAll(
             substituteOutsideQuotes(command, params[i + 1].name,
                                     positionalToken(i, params[i + 1]),
                                     quoteRegExp(command), 1, 0),
             params, i + 1)

\* "a = $1"
CmdEndsWithDollar1 ==
    <<"a", " ", "=", " ", "$", "1">>

\* C16: the rewritten command is the command with exactly the sigil and
\* identifier of each matched occurrence substituted by the positional token
\* and every other character kept once and in order; "a = :id" with :id
\* first gives "a = $1".
C16_OnlyNameReplaced ==
    rwPc = "done" =>
        /\ rwResult = substituteAll(rwCommand, rwParams, 0)
        /\ (rwCommand = CmdEndsWithId /\ rwParams = <<Param(NameId, <<>>)>>)
               => rwResult = CmdEndsWithDollar1

(***************************************************************************)
(* Claims about the parameter sequence and the fields of a Statement       *)
(***************************************************************************)
\* the Parameter objects a Statement lists, in order
listedOf(stmt) == slices[stmts[stmt].params]

\* C14: the sequence a Statement lists is the list it was constructed
\* with, and no step changes it: not a write to the list the application
\* supplied, not a write to a sequence Parameters() returned; Parameters()
\* returns those contents in a sequence of its own.
C14_ParametersSnapshot ==
    [][ /\ \A s \in DOMAIN stmts :
               slices'[stmts'[s].params] = slices[stmts[s].params]
        /\ (lastCall'.op = "newStatement" /\ lastCall'.panic = "none")
               => slices'[stmts'[lastCall'.stmt].params] = lastCall'.params
        /\ lastCall'.op = "Parameters"
               => /\ lastCall'.ret = slices'[stmts'[lastCall'.stmt].params]
                  /\ lastCall'.retRef \notin DOMAIN slices'
      ]_vars

\* C14 witness: Parameters() returns the two Parameters of the Statement
\* after the application has overwritten an entry of the list it supplied.
C14_Witness ==
    /\ lastCall.op = "Parameters"
    /\ Len(lastCall.ret) = 2
    /\ slices[<<"arg", lastCall.stmt>>] # lastCall.ret
    /\ \A i \in 1 .. 2 : lastCall.ret[i] # NilParam

\* C19: Parameter(name) returns the listed Parameter that bears the name,
\* whichever of the listed objects bears it, and nil when none does; it
\* never returns an object the Statement does not list.
C19_LookupAgrees ==
    lastCall.op = "Parameter" =>
        LET list == listedOf(lastCall.stmt)
            bearers == {i \in DOMAIN list :
                            parameterOf(list[i]).name = lastCall.name}
        IN  /\ \A i \in bearers : lastCall.param = list[i]
            /\ bearers = {} => lastCall.param = NilParam
            /\ lastCall.param # NilParam
                   => \E i \in DOMAIN list : list[i] = lastCall.param

\* C17: no step changes the command, the actual command, the name, the
\* portal name or the connection of a Statement; Command() and
\* ActualCommand() return the two texts.
C17_FieldsImmutable ==
    [][ /\ \A s \in DOMAIN stmts :
               /\ stmts'[s].command = stmts[s].command
               /\ stmts'[s].actualCommand = stmts[s].actualCommand
               /\ stmts'[s].name = stmts[s].name
               /\ stmts'[s].portalName = stmts[s].portalName
               /\ stmts'[s].conn = stmts[s].conn
        /\ lastCall'.op = "Command"
               => lastCall'.text = stmts'[lastCall'.stmt].command
        /\ lastCall'.op = "ActualCommand"
               => lastCall'.text = stmts'[lastCall'.stmt].actualCommand
      ]_vars

\* C17 witness: ActualCommand() on a closed Statement whose Parameter has
\* been given another value returns a text that is not the command.
C17_Witness ==
    /\ lastCall.op = "ActualCommand"
    /\ stmts[lastCall.stmt].isClosed
    /\ paramStmt["p1"] = lastCall.stmt
    /\ paramValue["p1"] = 1
    /\ lastCall.text # stmts[lastCall.stmt].command

====
